---- MODULE Spec2Model ----
(***************************************************************************)
(* Model of the loot_tabler Regolith filter (loot_tabler/main.js).         *)
(*                                                                         *)
(* Strings that the program inspects character by character (paths, keys,  *)
(* file names, loot-table values) are sequences of one-character strings.  *)
(* The file extension is one token, ".mcstructure".  Optional values       *)
(* (a missing JSON key, a missing NBT tag, a null result) are sequences of *)
(* length 0 or 1: None or Some(v).                                         *)
(*                                                                         *)
(* main() is modelled from the point where the settings are parsed.  The   *)
(* example-config writer and the diagnostic and report printers do not     *)
(* touch the state modelled here and are left out.                         *)
(***************************************************************************)
EXTENDS Integers, Sequences, FiniteSets

VARIABLES
    dirExists,      \* fileExists(structuresDir), main.js:585
    cfgStatus,      \* how loadLootConfig ends: "inline", "file", "nopath", "notfound", "unparsable"
    cfgValue,       \* the configuration object that settings / the file hold
    onlyUnassigned, \* opts.onlyUnassigned, main.js:574
    walked,         \* result of walk(structuresDir): sequence of relative paths
    disk,           \* disk[i]: content of the file walked[i]
    pc,             \* position of main(): "main", "loop", "records", "exited"
    config,         \* main's const config (Some) or None before it is loaded
    files,          \* main's const files: indices into walked, in order
    cur,            \* position of the for loop of main.js:603 in files
    root,           \* processFile's decoded tree of the current file
    folderRule,     \* processFile's const folderRule
    tileConfig,     \* processFile's const tileConfig
    keyIdx,         \* position of the for loop of main.js:456
    modifiedCount,  \* processFile's let modifiedCount
    totalModified,  \* main's let totalModified
    exitCode,       \* exit status of the process once pc = "exited"
    outcome,        \* outcome[i]: how processFile ended on walked[i] in this run
    counts,         \* counts[i]: modifiedCount returned for walked[i] in this run
    written,        \* indices of the files handed to fs.promises.writeFile in this run
    recState,       \* recState[k]: how the loop body ended on record k of the current file
    prevOutcome     \* outcome of the previous run of the filter on the same project

vars == <<dirExists, cfgStatus, cfgValue, onlyUnassigned, walked, disk, pc, config,
          files, cur, root, folderRule, tileConfig, keyIdx, modifiedCount,
          totalModified, exitCode, outcome, counts, written, recState, prevOutcome>>

-----------------------------------------------------------------------------
(* Optional values *)

None == <<>>
Some(v) == <<v>>
IsSome(o) == Len(o) = 1
Get(o) == o[1]

-----------------------------------------------------------------------------
(* String primitives *)

EXT == ".mcstructure"

\* String.prototype.startsWith
StartsWith(s, p) == Len(p) <= Len(s) /\ SubSeq(s, 1, Len(p)) = p

LowerChar(c) ==
    CASE c = "A" -> "a"
      [] c = "B" -> "b"
      [] c = ".MCSTRUCTURE" -> EXT
      [] OTHER -> c

\* String.prototype.toLowerCase
toLowerCase(s) == [i \in 1..Len(s) |-> LowerChar(s[i])]

IsSpace(c) == c = " "

RECURSIVE TrimStart(_)
TrimStart(s) == IF s # <<>> /\ IsSpace(s[1]) THEN TrimStart(Tail(s)) ELSE s

RECURSIVE TrimEnd(_)
TrimEnd(s) ==
    IF s # <<>> /\ IsSpace(s[Len(s)]) THEN TrimEnd(SubSeq(s, 1, Len(s) - 1)) ELSE s

\* String.prototype.trim
Trim(s) == TrimEnd(TrimStart(s))

RECURSIVE StripLeadingSlashes(_)
StripLeadingSlashes(s) ==
    IF s # <<>> /\ s[1] = "/" THEN StripLeadingSlashes(Tail(s)) ELSE s

RECURSIVE StripTrailingSlashes(_)
StripTrailingSlashes(s) ==
    IF s # <<>> /\ s[Len(s)] = "/"
    THEN StripTrailingSlashes(SubSeq(s, 1, Len(s) - 1))
    ELSE s

\* index of the last "/" of s, 0 when there is none
RECURSIVE LastSlash(_)
LastSlash(s) ==
    IF s = <<>> THEN 0
    ELSE IF s[Len(s)] = "/" THEN Len(s)
    ELSE LastSlash(SubSeq(s, 1, Len(s) - 1))

\* path.dirname (posix) of a path without trailing slash
dirname(p) ==
    LET i == LastSlash(p)
    IN  IF i = 0 THEN <<".">>
        ELSE IF StripTrailingSlashes(SubSeq(p, 1, i)) = <<>> THEN <<"/">>
        ELSE StripTrailingSlashes(SubSeq(p, 1, i))

\* path.basename (posix) of a path without trailing slash
basename(p) == SubSeq(p, LastSlash(p) + 1, Len(p))

-----------------------------------------------------------------------------
(* Path scoping helpers *)

normRel(p) ==
    LET s == [i \in 1..Len(p) |-> IF p[i] = "\\" THEN "/" ELSE p[i]]
        t == StripTrailingSlashes(StripLeadingSlashes(s))
    IN  IF StartsWith(t, <<".", "/">>) THEN SubSeq(t, 3, Len(t)) ELSE t

\* relDir.startsWith(k): a character prefix instead of a segment prefix
RECURSIVE pickFolderLoop_CharPrefix(_, _, _, _, _)
pickFolderLoop_CharPrefix(folders, relDir, i, best, bestLen) ==
    IF i > Len(folders) THEN best
    ELSE LET k == normRel(folders[i].key)
         IN  IF k = <<>> THEN pickFolderLoop_CharPrefix(folders, relDir, i + 1, best, bestLen)
             ELSE IF StartsWith(relDir, k) /\ Len(k) > bestLen
                  THEN pickFolderLoop_CharPrefix(folders, relDir, i + 1, i, Len(k))
                  ELSE pickFolderLoop_CharPrefix(folders, relDir, i + 1, best, bestLen)

\* config.folders is a sequence of [key, rule] in Object.keys order.
\* The loop of pickFolderRule from entry i on; best is the index of bestKey
\* (0 for null), bestLen its length.
RECURSIVE pickFolderLoop(_, _, _, _, _)
pickFolderLoop(folders, relDir, i, best, bestLen) ==
    IF i > Len(folders) THEN best
    ELSE LET k == normRel(folders[i].key)
         IN  IF k = <<>> THEN pickFolderLoop(folders, relDir, i + 1, best, bestLen)
             ELSE IF (relDir = k \/ StartsWith(relDir, k \o <<"/">>)) /\ Len(k) > bestLen
                  THEN pickFolderLoop(folders, relDir, i + 1, i, Len(k))
                  ELSE pickFolderLoop(folders, relDir, i + 1, best, bestLen)

pickFolderRule(cfg, relToStructures) ==
    LET folders == IF IsSome(cfg.folders) THEN Get(cfg.folders) ELSE <<>>
        relDir  == normRel(dirname(relToStructures))
        best    == pickFolderLoop(folders, relDir, 1, 0, -1)
    IN  IF best # 0 /\ folders[best].key # <<>> THEN Some(folders[best].rule) ELSE None

getTileMap(scopeObj) ==
    IF ~IsSome(scopeObj) THEN [t \in {} |-> None]
    ELSE IF IsSome(Get(scopeObj).tile_entities) THEN Get(Get(scopeObj).tile_entities)
    ELSE IF IsSome(Get(scopeObj).containers) THEN Get(Get(scopeObj).containers)
    ELSE [t \in {} |-> None]

-----------------------------------------------------------------------------
(* Per-structure (file name) override helpers *)

getStructureBaseName(filePath) ==
    LET low == toLowerCase(basename(filePath))
    IN  IF low # <<>> /\ low[Len(low)] = EXT THEN SubSeq(low, 1, Len(low) - 1) ELSE low

\* The loop of pickStructureOverride over the sequence of [key, value] entries.
RECURSIVE pickOverrideLoop(_, _, _, _, _)
pickOverrideLoop(overrides, stem, i, best, bestLen) ==
    IF i > Len(overrides) THEN best
    ELSE LET key == toLowerCase(overrides[i].key)
         IN  IF (stem = key \/ StartsWith(stem, key \o <<"_">>)) /\ Len(key) > bestLen
             THEN pickOverrideLoop(overrides, stem, i + 1, i, Len(key))
             ELSE pickOverrideLoop(overrides, stem, i + 1, best, bestLen)

\* bestKey ? overrides[bestKey] : null, where an empty bestKey is falsy
OverrideResult(overrides, best) ==
    IF best # 0 /\ overrides[best].key # <<>> THEN Some(overrides[best].value) ELSE None

pickStructureOverride(fRule, structureBaseName) ==
    IF ~IsSome(fRule) \/ ~IsSome(Get(fRule).structure_overrides) THEN None
    ELSE LET overrides == Get(Get(fRule).structure_overrides)
         IN  OverrideResult(overrides, pickOverrideLoop(overrides, structureBaseName, 1, 0, -1))

\* A tile map is a function from a set of tile ids to entries
\* [loot_table |-> optional string, seed |-> JSON value].
Overlay(base, top) ==
    [t \in DOMAIN base \cup DOMAIN top |-> IF t \in DOMAIN top THEN top[t] ELSE base[t]]

NullSeed == [t |-> "null", v |-> 0]

\* { loot_table: lt }
Wrap(lt) == [loot_table |-> Some(lt), seed |-> NullSeed]

\* out[tileId].loot_table = lt: the lower entry kept, only its loot path replaced
ApplyPaths_Merge(out, m) ==
    [t \in DOMAIN out \cup {u \in DOMAIN m : m[u] # <<>>} |->
        IF t \in DOMAIN m /\ m[t] # <<>>
        THEN [loot_table |-> Some(m[t]),
              seed |-> IF t \in DOMAIN out THEN out[t].seed ELSE [t |-> "null", v |-> 0]]
        ELSE out[t]]

\* for (tileId of Object.keys(m)) { lt = m[tileId]; if (!lt) continue; out[tileId] = {loot_table: lt} }
ApplyPaths(out, m) ==
    [t \in DOMAIN out \cup {u \in DOMAIN m : m[u] # <<>>} |->
        IF t \in DOMAIN m /\ m[t] # <<>> THEN Wrap(m[t]) ELSE out[t]]

buildPerFileTileConfig(cfg, fRule, filePath) ==
    LET g          == getTileMap(cfg.global)
        folderTile == getTileMap(fRule)
        out2       == Overlay(g, folderTile)
        out3       == IF IsSome(fRule) /\ IsSome(Get(fRule).structure_defaults)
                      THEN ApplyPaths(out2, Get(Get(fRule).structure_defaults))
                      ELSE out2
        override   == pickStructureOverride(fRule, getStructureBaseName(filePath))
    IN  IF IsSome(override) THEN ApplyPaths(out3, Get(override)) ELSE out3

-----------------------------------------------------------------------------
(* Decoded trees *)

\* A JSON seed value: null / undefined, an integer, a number BigInt() rejects
\* (non-integer), or the empty string.
IntSeed(n) == [t |-> "int", v |-> n]
FracSeed == [t |-> "frac", v |-> 0]
EmptyStrSeed == [t |-> "emptystr", v |-> 0]

StringTag(s) == [type |-> "string", value |-> s]
LongTag(n) == [type |-> "long", value |-> n]

NoTiles == [t \in {} |-> None]

\* structure, palette and default hold the type of the tag ("absent" when it
\* is missing); block_indices and block_palette are the layers processFile
\* reads for its diagnostics only.
EmptyTree ==
    [structure |-> "absent", palette |-> "absent", default |-> "absent",
     block_indices |-> <<>>, block_palette |-> <<>>,
     block_position_data |-> None]

\* The records of block_position_data in Object.keys order.
Records(tree) ==
    IF IsSome(tree.block_position_data) THEN Get(tree.block_position_data) ELSE <<>>

Idle(n) == [i \in 1..n |-> "none"]

-----------------------------------------------------------------------------
(* processFile, one loop iteration per step *)

\* the check of palette.default left out
SkipReason_NoDefaultCheck(tree) ==
    IF tree.structure # "compound" THEN "structure"
    ELSE IF tree.palette # "compound" THEN "palette"
    ELSE ""

\* main.js:391-410: the reason processFile returns skipped, "" when it goes on
SkipReason(tree) ==
    IF tree.structure # "compound" THEN "structure"
    ELSE IF tree.palette # "compound" THEN "palette"
    ELSE IF tree.default # "compound" THEN "default"
    ELSE ""

\* main.js:421-425
WithPositionData(tree) ==
    IF IsSome(tree.block_position_data) THEN tree
    ELSE [tree EXCEPT !.block_position_data = Some(<<>>)]

\* the legacy map always laid under the composited map
EffectiveTileConfig_Underlay(cfg, fRule, filePath) ==
    Overlay(getTileMap(Some(cfg)), buildPerFileTileConfig(cfg, fRule, filePath))

\* main.js:436-447: the effective tile config of one file
EffectiveTileConfig(cfg, fRule, filePath) ==
    LET built  == buildPerFileTileConfig(cfg, fRule, filePath)
        legacy == getTileMap(Some(cfg))
    IN  IF DOMAIN built = {} /\ DOMAIN legacy # {} THEN legacy ELSE built

\* main.js:449-451
DefaultSeed(cfg) == IF IsSome(cfg.defaults) THEN Get(cfg.defaults).seed ELSE NullSeed
OverrideExisting(cfg) == IsSome(cfg.defaults) /\ Get(cfg.defaults).override_existing

\* perTileConfig.seed || defaultSeed: a per-tile seed of 0 taken for absent
SeedToUse_Falsy(perTileConfig, defaultSeed) ==
    IF perTileConfig.seed.t # "null" /\ perTileConfig.seed # [t |-> "int", v |-> 0]
    THEN perTileConfig.seed
    ELSE defaultSeed

\* main.js:475-476
SeedToUse(perTileConfig, defaultSeed) ==
    IF perTileConfig.seed.t # "null" THEN perTileConfig.seed ELSE defaultSeed

\* main.js:479-483
HasLootAlready(rec) ==
    /\ IsSome(rec.LootTable)
    /\ Get(rec.LootTable).type = "string"
    /\ Trim(Get(rec.LootTable).value) # <<>>

\* onlyUnassigned not consulted
MayWrite_IgnoreOnly(rec, only, overrideExisting) ==
    ~(HasLootAlready(rec) /\ ~overrideExisting)

\* main.js:488-492: TRUE when the loop body goes on to write
MayWrite(rec, only, overrideExisting) ==
    IF only THEN ~HasLootAlready(rec)
    ELSE ~(HasLootAlready(rec) /\ ~overrideExisting)

\* main.js:458-473: TRUE when the loop body reaches the policy decision
HasRule(rec, tc) ==
    /\ rec.shape = "entity"
    /\ rec.id \in DOMAIN tc
    /\ IsSome(tc[rec.id].loot_table)
    /\ Get(tc[rec.id].loot_table) # <<>>

\* main.js:498: no seed to write
SeedAbsent(seed) == seed.t \in {"null", "emptystr"}

\* the seed truncated to an integer instead of rejected
BigIntThrows_Never(seed) == FALSE

\* BigInt(seedToUse) throws
BigIntThrows(seed) == seed.t = "frac"

\* block_entity_data built anew from the managed fields
WriteRecord_Rebuild(rec, perTileConfig, seed) ==
    [shape |-> rec.shape, id |-> rec.id,
     LootTable |-> Some(StringTag(Get(perTileConfig.loot_table))),
     LootTableSeed |-> IF SeedAbsent(seed) THEN None ELSE Some(LongTag(seed.v)),
     Items |-> 0]

\* main.js:495-503: the record after the write; the seed is one BigInt accepts
WriteRecord(rec, perTileConfig, seed) ==
    [rec EXCEPT !.LootTable = Some(StringTag(Get(perTileConfig.loot_table))),
                !.LootTableSeed = IF SeedAbsent(seed) THEN None
                                  ELSE Some(LongTag(seed.v))]

\* main.js:495: the record when BigInt throws after LootTable was set
HalfWrittenRecord(rec, perTileConfig) ==
    [rec EXCEPT !.LootTable = Some(StringTag(Get(perTileConfig.loot_table)))]

SetRecord(tree, k, rec) ==
    [tree EXCEPT !.block_position_data = Some([Records(tree) EXCEPT ![k] = rec])]

\* getRelativeToStructures: walked paths are kept relative to structuresDir
getRelativeToStructures(filePath) == normRel(filePath)

\* main.js:592
IsStructureFile(p) == p # <<>> /\ LowerChar(p[Len(p)]) = EXT

RECURSIVE FilterFiles(_, _)
FilterFiles(paths, i) ==
    IF i > Len(paths) THEN <<>>
    ELSE IF IsStructureFile(paths[i]) THEN <<i>> \o FilterFiles(paths, i + 1)
    ELSE FilterFiles(paths, i + 1)

\* a JSON.parse error swallowed
ConfigLoads_IgnoreParseError == cfgStatus \in {"inline", "file", "unparsable"}

\* main.js:525-562: loadLootConfig returns (does not throw)
ConfigLoads == cfgStatus \in {"inline", "file"}

\* the file written back unconditionally
ShouldWrite_Always(count) == TRUE

\* main.js:515
ShouldWrite(count) == count > 0

\* the first error ends the loop
AfterCatch_Abort(c) == Len(files) + 1

\* main.js:616-618 and the loop header: the catch block logs and the loop goes on
AfterCatch(c) == c + 1

\* main.js:566-599
Main ==
    /\ pc = "main"
    /\ IF ~dirExists
       THEN /\ pc' = "exited" /\ exitCode' = 0
            /\ UNCHANGED <<config, files, cur>>
       ELSE IF ~ConfigLoads
       THEN /\ pc' = "exited" /\ exitCode' = 1
            /\ UNCHANGED <<config, files, cur>>
       ELSE /\ config' = Some(cfgValue)
            /\ files' = FilterFiles(walked, 1)
            /\ IF files' = <<>>
               THEN pc' = "exited" /\ exitCode' = 0 /\ cur' = cur
               ELSE pc' = "loop" /\ exitCode' = exitCode /\ cur' = 1
    /\ UNCHANGED <<dirExists, cfgStatus, cfgValue, onlyUnassigned, walked, disk, root,
                   folderRule, tileConfig, keyIdx, modifiedCount, totalModified,
                   outcome, counts, written, recState, prevOutcome>>

\* main.js:603-605, 382-453: read and decode files[cur], up to the record loop
ProcessFileBegin ==
    /\ pc = "loop" /\ cur <= Len(files)
    /\ LET f == files[cur]
       IN  IF disk[f].kind # "nbt"
           THEN \* nbt.parseUncompressed throws; caught at main.js:616
                /\ outcome' = [outcome EXCEPT ![f] = "error"]
                /\ cur' = AfterCatch(cur)
                /\ UNCHANGED <<pc, root, folderRule, tileConfig, keyIdx, modifiedCount,
                               recState>>
           ELSE IF SkipReason(disk[f].tree) # ""
           THEN /\ outcome' = [outcome EXCEPT ![f] = "skipped"]
                /\ cur' = cur + 1
                /\ UNCHANGED <<pc, root, folderRule, tileConfig, keyIdx, modifiedCount,
                               recState>>
           ELSE /\ root' = WithPositionData(disk[f].tree)
                /\ folderRule' = pickFolderRule(Get(config), getRelativeToStructures(walked[f]))
                /\ tileConfig' = EffectiveTileConfig(Get(config), folderRule', walked[f])
                /\ keyIdx' = 1
                /\ modifiedCount' = 0
                /\ recState' = [k \in 1..Len(Records(root')) |-> "unseen"]
                /\ pc' = "records"
                /\ UNCHANGED <<outcome, cur>>
    /\ UNCHANGED <<dirExists, cfgStatus, cfgValue, onlyUnassigned, walked, disk, config,
                   files, totalModified, exitCode, counts, written, prevOutcome>>

\* main.js:456-506: one iteration of the loop over block_position_data
VisitRecord ==
    /\ pc = "records" /\ keyIdx <= Len(Records(root))
    /\ LET rec  == Records(root)[keyIdx]
           f    == files[cur]
           seed == SeedToUse(tileConfig[rec.id], DefaultSeed(Get(config)))
       IN  IF ~HasRule(rec, tileConfig)
           THEN /\ recState' = [recState EXCEPT ![keyIdx] = "no-rule-skip"]
                /\ keyIdx' = keyIdx + 1
                /\ UNCHANGED <<root, modifiedCount, pc, cur, outcome>>
           ELSE IF ~MayWrite(rec, onlyUnassigned, OverrideExisting(Get(config)))
           THEN /\ recState' = [recState EXCEPT ![keyIdx] = "existing-preserved-skip"]
                /\ keyIdx' = keyIdx + 1
                /\ UNCHANGED <<root, modifiedCount, pc, cur, outcome>>
           ELSE IF ~SeedAbsent(seed) /\ BigIntThrows(seed)
           THEN \* thrown out of processFile; caught at main.js:616
                /\ root' = SetRecord(root, keyIdx, HalfWrittenRecord(rec, tileConfig[rec.id]))
                /\ recState' = [recState EXCEPT ![keyIdx] = "threw"]
                /\ outcome' = [outcome EXCEPT ![f] = "error"]
                /\ pc' = "loop"
                /\ cur' = AfterCatch(cur)
                /\ UNCHANGED <<keyIdx, modifiedCount>>
           ELSE /\ root' = SetRecord(root, keyIdx, WriteRecord(rec, tileConfig[rec.id], seed))
                /\ recState' = [recState EXCEPT ![keyIdx] = "mutated"]
                /\ modifiedCount' = modifiedCount + 1
                /\ keyIdx' = keyIdx + 1
                /\ UNCHANGED <<pc, cur, outcome>>
    /\ UNCHANGED <<dirExists, cfgStatus, cfgValue, onlyUnassigned, walked, disk, config,
                   files, folderRule, tileConfig, totalModified, exitCode, counts,
                   written, prevOutcome>>

\* main.js:508-520 and 605-615: write back, return, and main's bookkeeping.
\* encodes is the outcome of nbt.writeUncompressed: FALSE when it throws.
ProcessFileEnd ==
    /\ pc = "records" /\ keyIdx > Len(Records(root))
    /\ \E encodes \in BOOLEAN :
        LET f == files[cur]
        IN  IF ShouldWrite(modifiedCount) /\ ~encodes
            THEN /\ outcome' = [outcome EXCEPT ![f] = "error"]
                 /\ cur' = AfterCatch(cur)
                 /\ UNCHANGED <<disk, written, counts, totalModified>>
            ELSE /\ outcome' = [outcome EXCEPT ![f] = "ok"]
                 /\ counts' = [counts EXCEPT ![f] = modifiedCount]
                 /\ totalModified' = totalModified + modifiedCount
                 /\ cur' = cur + 1
                 /\ IF ShouldWrite(modifiedCount)
                    THEN /\ disk' = [disk EXCEPT ![f] = [kind |-> "nbt", tree |-> root]]
                         /\ written' = written \cup {f}
                    ELSE UNCHANGED <<disk, written>>
    /\ pc' = "loop"
    /\ UNCHANGED <<dirExists, cfgStatus, cfgValue, onlyUnassigned, walked, config, files,
                   root, folderRule, tileConfig, keyIdx, modifiedCount, exitCode,
                   recState, prevOutcome>>

\* main.js:621
MainDone ==
    /\ pc = "loop" /\ cur > Len(files)
    /\ pc' = "exited"
    /\ exitCode' = 0
    /\ UNCHANGED <<dirExists, cfgStatus, cfgValue, onlyUnassigned, walked, disk, config,
                   files, cur, root, folderRule, tileConfig, keyIdx, modifiedCount,
                   totalModified, outcome, counts, written, recState, prevOutcome>>

\* The filter is started again on the project it left behind (the next build).
Rerun ==
    /\ pc = "exited"
    /\ pc' = "main"
    /\ prevOutcome' = outcome
    /\ config' = None
    /\ files' = <<>>
    /\ cur' = 0
    /\ root' = EmptyTree
    /\ folderRule' = None
    /\ tileConfig' = NoTiles
    /\ keyIdx' = 0
    /\ modifiedCount' = 0
    /\ totalModified' = 0
    /\ exitCode' = -1
    /\ outcome' = Idle(Len(walked))
    /\ counts' = [i \in 1..Len(walked) |-> 0]
    /\ written' = {}
    /\ recState' = <<>>
    /\ UNCHANGED <<dirExists, cfgStatus, cfgValue, onlyUnassigned, walked, disk>>

Next == Main \/ ProcessFileBegin \/ VisitRecord \/ ProcessFileEnd \/ MainDone \/ Rerun

\* The state of a process that has just started on the project.
Started ==
    /\ pc = "main"
    /\ prevOutcome = Idle(Len(walked))
    /\ config = None
    /\ files = <<>>
    /\ cur = 0
    /\ root = EmptyTree
    /\ folderRule = None
    /\ tileConfig = NoTiles
    /\ keyIdx = 0
    /\ modifiedCount = 0
    /\ totalModified = 0
    /\ exitCode = -1
    /\ outcome = Idle(Len(walked))
    /\ counts = [i \in 1..Len(walked) |-> 0]
    /\ written = {}
    /\ recState = <<>>

-----------------------------------------------------------------------------
(* Inputs *)

MaxFiles == 2
MaxRecords == 2
MaxKeys == 2
MaxKeyLen == 3
MaxOverrideKeyLen == 2

SeqsUpTo(S, n) == UNION {[1..k -> S] : k \in 0..n}

Entry(path, seed) == [loot_table |-> path, seed |-> seed]
OneTile(id, e) == [t \in {id} |-> e]

Scope(tiles) == [tile_entities |-> tiles, containers |-> None]
Defaults(seed, oe) == [seed |-> seed, override_existing |-> oe]

Cfg(global, folders, defaults) ==
    [global |-> global, folders |-> folders, defaults |-> defaults,
     tile_entities |-> None, containers |-> None]

FolderRule(tiles, sdefaults, soverrides) ==
    [tile_entities |-> tiles, containers |-> None,
     structure_defaults |-> sdefaults, structure_overrides |-> soverrides]

Entity(id, lt, seed) ==
    [shape |-> "entity", id |-> id, LootTable |-> lt, LootTableSeed |-> seed, Items |-> 3]

NotEntity(shape) ==
    [shape |-> shape, id |-> "", LootTable |-> None, LootTableSeed |-> None, Items |-> 3]

Tree(records) ==
    [structure |-> "compound", palette |-> "compound", default |-> "compound",
     block_indices |-> <<<<1, 0>>, <<-1, -1>>>>, block_palette |-> <<"air", "chest">>,
     block_position_data |-> records]

Nbt(tree) == [kind |-> "nbt", tree |-> tree]
Garbage == [kind |-> "garbage", tree |-> EmptyTree]

\* the i-th file of a walk: directory "d", "dd", ... so that paths differ
RECURSIVE DirOf(_)
DirOf(i) == IF i <= 1 THEN <<"d">> ELSE <<"d">> \o DirOf(i - 1)
PathAt(i, ext) == DirOf(i) \o <<"/", "x", ext>>

GlobalChest(path, seed) == Some(Scope(Some(OneTile("Chest", Entry(path, seed)))))

(* Run level: several files, every way a file or the run can end *)

RunContents ==
    { Garbage,
      Nbt(EmptyTree),
      Nbt([EmptyTree EXCEPT !.structure = "compound"]),
      Nbt([EmptyTree EXCEPT !.structure = "compound", !.palette = "compound",
                            !.default = "other"]),
      Nbt(Tree(None)),
      Nbt(Tree(Some(<<Entity("Chest", None, None)>>))),
      Nbt(Tree(Some(<<Entity("Chest", Some(StringTag(<<"E">>)), None),
                      Entity("Chest", None, Some(LongTag(9)))>>))) }

RunFiles ==
    {[ext |-> EXT, content |-> c] : c \in RunContents}
    \cup {[ext |-> ".txt", content |-> Garbage],
          [ext |-> ".MCSTRUCTURE", content |-> Nbt(Tree(Some(<<Entity("Chest", None, None)>>)))]}

CfgPlain == Cfg(GlobalChest(Some(<<"A">>), NullSeed), None, None)
CfgFrac == Cfg(GlobalChest(Some(<<"A">>), FracSeed), None, None)
CfgOverride == Cfg(GlobalChest(Some(<<"A">>), NullSeed), None, Some(Defaults(IntSeed(2), TRUE)))

RunSettings ==
    { [dir |-> TRUE, status |-> "inline", cfg |-> CfgPlain, only |-> TRUE],
      [dir |-> TRUE, status |-> "file", cfg |-> CfgPlain, only |-> FALSE],
      [dir |-> TRUE, status |-> "file", cfg |-> CfgFrac, only |-> FALSE],
      [dir |-> TRUE, status |-> "file", cfg |-> CfgOverride, only |-> FALSE],
      [dir |-> TRUE, status |-> "nopath", cfg |-> CfgPlain, only |-> FALSE],
      [dir |-> TRUE, status |-> "notfound", cfg |-> CfgPlain, only |-> FALSE],
      [dir |-> TRUE, status |-> "unparsable", cfg |-> CfgPlain, only |-> FALSE],
      [dir |-> FALSE, status |-> "file", cfg |-> CfgPlain, only |-> FALSE],
      [dir |-> FALSE, status |-> "notfound", cfg |-> CfgPlain, only |-> FALSE] }

Init ==
    /\ \E s \in RunSettings :
        /\ dirExists = s.dir
        /\ cfgStatus = s.status
        /\ cfgValue = s.cfg
        /\ onlyUnassigned = s.only
    /\ \E w \in SeqsUpTo(RunFiles, MaxFiles) :
        /\ walked = [i \in 1..Len(w) |-> PathAt(i, w[i].ext)]
        /\ disk = [i \in 1..Len(w) |-> w[i].content]
    /\ Started

Spec == Init /\ [][Next]_vars

-----------------------------------------------------------------------------
(* Run-level properties *)

\* f is a file the loop of main has finished with in this run
Processed(f) == \E i \in 1..Len(files) : files[i] = f /\ i < cur

\* the loop of main ran to its end
LoopEnded == pc = "exited" /\ IsSome(config) /\ files # <<>>

RECURSIVE SumOk(_)
SumOk(n) ==
    IF n = 0 THEN 0
    ELSE SumOk(n - 1) + (IF outcome[n] = "ok" THEN counts[n] ELSE 0)

\* C7: a file is handed to writeFile exactly when processFile returns a mutation
\* count greater than 0 for it, and the content of a file on disk changes only
\* in the step that writes it: a file with count 0 keeps its content, also when
\* block_position_data was synthesized in memory.
C7_WriteIffMutated ==
    [][\A f \in DOMAIN disk :
          /\ (f \in written') <=> (outcome'[f] = "ok" /\ counts'[f] > 0)
          /\ (disk'[f] # disk[f]) => (f \in written' /\ f \notin written)]_vars

C7_Witness ==
    \E f, g \in DOMAIN disk :
        /\ outcome[f] = "ok" /\ counts[f] = 0 /\ f \notin written
        /\ disk[f] = Nbt(Tree(None))
        /\ outcome[g] = "ok" /\ counts[g] > 0 /\ g \in written

\* C8: a file whose processing threw is not written, the aggregate is the sum of
\* the counts of the files that completed, and when the loop has ended every
\* file of the list has been processed, whatever happened to the files before it.
C8_ErrorIsolated ==
    /\ \A f \in DOMAIN disk : outcome[f] = "error" => f \notin written /\ counts[f] = 0
    /\ totalModified = SumOk(Len(walked))
    /\ LoopEnded => \A i \in 1..Len(files) : outcome[files[i]] # "none"

C8_Witness ==
    /\ LoopEnded
    /\ \E i, j \in 1..Len(files) :
        /\ i < j
        /\ outcome[files[i]] = "error"
        /\ outcome[files[j]] = "ok"
        /\ counts[files[j]] > 0
        /\ totalModified = counts[files[j]]

\* the tree lacks a compound structure, palette or palette.default
Malformed(tree) ==
    tree.structure # "compound" \/ tree.palette # "compound" \/ tree.default # "compound"

\* C9: a decodable file without a compound structure, palette or palette.default
\* ends skipped with count 0 and is not written, and when the loop has ended
\* every file of the list has been processed.
C9_MalformedSkipped ==
    /\ \A f \in DOMAIN disk :
          (Processed(f) /\ disk[f].kind = "nbt" /\ Malformed(disk[f].tree))
              => (outcome[f] = "skipped" /\ counts[f] = 0 /\ f \notin written)
    /\ LoopEnded => cur = Len(files) + 1

C9_Witness ==
    /\ LoopEnded
    /\ \E i, j \in 1..Len(files) :
        /\ i < j
        /\ disk[files[i]] = Nbt([EmptyTree EXCEPT !.structure = "compound"])
        /\ outcome[files[i]] = "skipped"
        /\ outcome[files[j]] = "ok"
        /\ files[j] \in written

ConfigMissingOrBad == cfgStatus \in {"nopath", "notfound", "unparsable"}

NothingProcessed ==
    /\ written = {}
    /\ \A f \in DOMAIN disk : outcome[f] = "none"
    /\ pc \in {"main", "exited"}

\* C10 as stated: whenever the configuration cannot be found or parsed, the
\* process ends with a non-zero exit status and no file is processed.
C10_Original ==
    (ConfigMissingOrBad /\ pc = "exited") => (exitCode # 0 /\ NothingProcessed)

\* C10 amended: when the structures directory exists and the configuration
\* cannot be found or parsed, the process ends with exit status 1 and no file
\* is processed or written; without a structures directory main returns before
\* it looks for the configuration and the exit status is 0, again with no file
\* processed.
C10_FatalWhenDirExists ==
    ConfigMissingOrBad =>
        /\ NothingProcessed
        /\ pc = "exited" => exitCode = (IF dirExists THEN 1 ELSE 0)

C10_Witness ==
    /\ pc = "exited" /\ exitCode = 1 /\ cfgStatus = "unparsable"
    /\ \E f \in DOMAIN disk : IsStructureFile(walked[f]) /\ disk[f].kind = "nbt"

-----------------------------------------------------------------------------
(* Record level: one file, every kind of record, rule and seed *)

RecordSet ==
    { Entity("Chest", None, None),
      Entity("Chest", None, Some(LongTag(9))),
      Entity("Chest", Some(StringTag(<<"E">>)), Some(LongTag(9))),
      Entity("Chest", Some(StringTag(<<" ", "E", " ">>)), None),
      Entity("Chest", Some(StringTag(<<" ">>)), Some(LongTag(9))),
      Entity("Chest", Some(StringTag(<<>>)), None),
      Entity("Chest", Some([type |-> "int", value |-> <<"7">>]), None),
      Entity("Barrel", None, None),
      NotEntity("notCompound"),
      NotEntity("noBlockEntityData"),
      NotEntity("noStringId") }

RecordConfigs ==
    {Cfg(GlobalChest(Some(<<"A">>), ps), None, Some(Defaults(ds, oe))) :
        ps \in {NullSeed, IntSeed(0), IntSeed(1), FracSeed, EmptyStrSeed},
        ds \in {NullSeed, IntSeed(0), IntSeed(2)},
        oe \in BOOLEAN}
    \cup {Cfg(GlobalChest(path, NullSeed), None, None) :
            path \in {None, Some(<<>>), Some(<<" ">>), Some(<<"A">>)}}

InitRecord ==
    /\ dirExists = TRUE
    /\ cfgStatus = "file"
    /\ cfgValue \in RecordConfigs
    /\ onlyUnassigned \in BOOLEAN
    /\ walked = <<PathAt(1, EXT)>>
    /\ \E recs \in SeqsUpTo(RecordSet, MaxRecords) : disk = <<Nbt(Tree(Some(recs)))>>
    /\ Started

SpecRecord == InitRecord /\ [][Next]_vars

\* the file being processed and its records as they are on disk
CurFile == files[cur]
OnDisk(k) == Records(disk[CurFile].tree)[k]
InMemory(k) == Records(root)[k]
Visited == {k \in 1..Len(recState) : recState[k] # "unseen"}

\* the record is a block entity whose tile type has a rule with a loot path
RuleApplies(rec) ==
    /\ rec.shape = "entity"
    /\ rec.id \in DOMAIN tileConfig
    /\ tileConfig[rec.id].loot_table \notin {None, Some(<<>>)}

\* the record has a LootTable string that is not empty after trimming
Assigned(rec) ==
    /\ rec.LootTable # None
    /\ Get(rec.LootTable).type = "string"
    /\ \E i \in 1..Len(Get(rec.LootTable).value) : Get(rec.LootTable).value[i] # " "

ConfigOverrides == cfgValue.defaults # None /\ Get(cfgValue.defaults).override_existing

\* C1: for a visited record whose tile type has a rule with a loot path, the loop
\* body writes LootTable exactly when the policy allows it: with onlyUnassigned
\* only an unassigned record, otherwise an unassigned record or, with
\* override_existing, any record; a record that is not written keeps its
\* LootTable and the rest of its fields.
C1_OverwritePolicy ==
    pc = "records" =>
        \A k \in Visited :
            RuleApplies(OnDisk(k)) =>
                LET wrote == recState[k] \in {"mutated", "threw"}
                    allowed == IF onlyUnassigned THEN ~Assigned(OnDisk(k))
                               ELSE ~Assigned(OnDisk(k)) \/ ConfigOverrides
                IN  /\ wrote <=> allowed
                    /\ wrote => InMemory(k).LootTable
                                    = Some(StringTag(Get(tileConfig[OnDisk(k).id].loot_table)))
                    /\ ~wrote => InMemory(k) = OnDisk(k)

C1_Witness ==
    /\ pc = "records"
    /\ ~onlyUnassigned /\ ~ConfigOverrides
    /\ \E k, m \in Visited :
        /\ RuleApplies(OnDisk(k)) /\ Assigned(OnDisk(k))
        /\ recState[k] = "existing-preserved-skip"
        /\ RuleApplies(OnDisk(m)) /\ ~Assigned(OnDisk(m))
        /\ OnDisk(m).LootTable = Some(StringTag(<<" ">>))
        /\ recState[m] = "mutated"

ConfigDefaultSeed ==
    IF cfgValue.defaults = None THEN NullSeed ELSE Get(cfgValue.defaults).seed

\* C5: a record that was written ends with the per-tile seed of its rule when
\* that is set (0 included), otherwise with the default seed of the
\* configuration, as a long leaf; when the seed so chosen is no integer (none is
\* set at either level) it ends without a LootTableSeed leaf.
C5_SeedResolution ==
    pc = "records" =>
        \A k \in Visited :
            recState[k] = "mutated" =>
                LET rule == tileConfig[OnDisk(k).id]
                    applied == IF rule.seed # NullSeed THEN rule.seed ELSE ConfigDefaultSeed
                IN  IF applied.t = "int"
                    THEN InMemory(k).LootTableSeed = Some(LongTag(applied.v))
                    ELSE InMemory(k).LootTableSeed = None

C5_Witness ==
    /\ pc = "records"
    /\ ConfigDefaultSeed = IntSeed(2)
    /\ \E k \in Visited :
        /\ recState[k] = "mutated"
        /\ tileConfig[OnDisk(k).id].seed = IntSeed(0)
        /\ OnDisk(k).LootTableSeed = Some(LongTag(9))
        /\ InMemory(k).LootTableSeed = Some(LongTag(0))

\* C6: with onlyUnassigned, a run over the files a previous run completed
\* returns a mutation count of 0 for each of them and changes no record.
C6_Idempotent ==
    onlyUnassigned =>
        /\ \A f \in DOMAIN disk :
              (prevOutcome[f] = "ok" /\ outcome[f] = "ok") => counts[f] = 0
        /\ (pc = "records" /\ prevOutcome[CurFile] = "ok") =>
              (modifiedCount = 0 /\ root = WithPositionData(disk[CurFile].tree))

\* two records that differ in their LootTable and LootTableSeed leaves at most
SameButLoot(a, b) ==
    [a EXCEPT !.LootTable = None, !.LootTableSeed = None]
        = [b EXCEPT !.LootTable = None, !.LootTableSeed = None]

\* the tree without its block entities: the tags above them, the block-index
\* layers and the block palette
LayersOf(tree) == [tree EXCEPT !.block_position_data = None]

\* two trees that differ in the LootTable and LootTableSeed leaves of their
\* block entities at most
SameTreeButLoot(a, b) ==
    /\ LayersOf(a) = LayersOf(b)
    /\ Len(Records(a)) = Len(Records(b))
    /\ \A k \in 1..Len(Records(a)) : SameButLoot(Records(a)[k], Records(b)[k])

\* the existing LootTable of the record is kept by the policy
Preserved(rec) == Assigned(rec) /\ (onlyUnassigned \/ ~ConfigOverrides)

\* C12: a step of the pass over the records changes nothing of the tree but the
\* LootTable and LootTableSeed leaves of the record it is at, and not even
\* those when the tile type of the record has no rule with a loot path or when
\* its LootTable is kept by the policy; the other fields of a written record,
\* the other records, the block-index layers and the palette stay as they
\* are.  A file whose content on disk changes differs from what it was in
\* these leaves only.
C12_OnlyLootLeavesChange ==
    [][/\ pc = "records" =>
            /\ SameTreeButLoot(root, root')
            /\ \A k \in 1..Len(Records(root)) :
                  (\/ k # keyIdx
                   \/ ~RuleApplies(Records(root)[k])
                   \/ Preserved(Records(root)[k]))
                      => Records(root')[k] = Records(root)[k]
       /\ \A f \in DOMAIN disk :
            disk'[f] # disk[f] =>
                /\ disk'[f].kind = "nbt"
                /\ SameTreeButLoot(disk[f].tree, disk'[f].tree)]_vars

C12_Witness ==
    /\ pc = "loop"
    /\ 1 \in written
    /\ recState = <<"existing-preserved-skip", "mutated">>
    /\ Records(disk[1].tree)[1] = Entity("Chest", Some(StringTag(<<"E">>)), Some(LongTag(9)))
    /\ Records(disk[1].tree)[2].LootTable = Some(StringTag(<<"A">>))
    /\ Records(disk[1].tree)[2].LootTableSeed = None
    /\ Records(disk[1].tree)[2].Items = 3
    /\ disk[1].tree.block_indices # <<>>

\* The pass over the records of one file, with the progress the code has: the
\* loop of main.js:456 is synchronous code that runs on until it ends or
\* throws, and the awaits after it settle.
PassRecords ==
    { Entity("Chest", None, Some(LongTag(9))),
      Entity("Chest", Some(StringTag(<<"E">>)), None),
      Entity("Barrel", None, None),
      NotEntity("noStringId") }

PassConfigs ==
    {Cfg(GlobalChest(Some(<<"A">>), ps), None, Some(Defaults(ds, oe))) :
        ps \in {NullSeed, IntSeed(1), FracSeed},
        ds \in {NullSeed, FracSeed},
        oe \in BOOLEAN}

InitPass ==
    /\ dirExists = TRUE
    /\ cfgStatus = "file"
    /\ cfgValue \in PassConfigs
    /\ onlyUnassigned \in BOOLEAN
    /\ walked = <<PathAt(1, EXT)>>
    /\ \E recs \in SeqsUpTo(PassRecords, MaxRecords) : disk = <<Nbt(Tree(Some(recs)))>>
    /\ Started

SpecPass == InitPass /\ [][Next]_vars /\ WF_vars(VisitRecord) /\ WF_vars(ProcessFileEnd)

Terminal == {"no-rule-skip", "existing-preserved-skip", "mutated"}

AllTerminal(rs) == \A k \in 1..Len(rs) : rs[k] \in Terminal

NumMutated(rs) == Cardinality({k \in 1..Len(rs) : rs[k] = "mutated"})

\* the pass was cut at record k: the records before it are in a terminal
\* state, the records after it were not visited
AbortedAt(rs, k) ==
    /\ rs[k] = "threw"
    /\ \A j \in 1..Len(rs) : (j < k => rs[j] \in Terminal) /\ (j > k => rs[j] = "unseen")

\* the seed that applies to the record is one BigInt rejects (not an integer)
SeedRejected(rec) ==
    LET rule == tileConfig[rec.id]
        applied == IF rule.seed # NullSeed THEN rule.seed ELSE ConfigDefaultSeed
    IN  applied.t = "frac"

\* the step ends the pass over the current file
PassEnds == pc = "records" /\ pc' # "records"

\* C13 as stated: every record is visited once and ends in one of the three
\* terminal states, the pass terminates, and the count it returns is the number
\* of records that ended mutated.
C13_Original ==
    /\ [][PassEnds => (AllTerminal(recState') /\ modifiedCount' = NumMutated(recState'))]_vars
    /\ (pc = "records") ~> (pc # "records")

\* C13 amended: the records are visited in order, each at most once, and a
\* visited record never changes state again.  A visit ends in no-rule-skip,
\* existing-preserved-skip or mutated, unless the record is to be written with
\* a seed that is not an integer: then BigInt throws, the record is left with
\* its LootTable set in memory, the pass ends there with the later records
\* unvisited, no count is returned and the file is not written.  The pass
\* terminates either way; when it is not cut, every record is in exactly one
\* of the three terminal states and the count returned is the number of
\* mutated records.
C13_SinglePass ==
    /\ [][pc = "records" =>
            /\ \A k \in 1..Len(recState) :
                  recState'[k] # recState[k] =>
                      /\ k = keyIdx
                      /\ recState[k] = "unseen"
                      /\ recState'[k] \in Terminal \cup {"threw"}
                      /\ recState'[k] = "threw" <=>
                            /\ RuleApplies(Records(root)[k])
                            /\ ~Preserved(Records(root)[k])
                            /\ SeedRejected(Records(root)[k])
            /\ modifiedCount = NumMutated(recState)
            /\ PassEnds =>
                  \/ /\ AllTerminal(recState')
                     /\ modifiedCount' = NumMutated(recState')
                     /\ outcome'[CurFile] = "ok" => counts'[CurFile] = NumMutated(recState')
                  \/ /\ AbortedAt(recState', keyIdx)
                     /\ outcome'[CurFile] = "error"
                     /\ counts'[CurFile] = 0
                     /\ disk' = disk]_vars
    /\ (pc = "records") ~> (pc # "records")

C13_Witness ==
    /\ pc = "loop"
    /\ recState = <<"existing-preserved-skip", "mutated">>
    /\ counts = <<1>>
    /\ outcome = <<"ok">>

-----------------------------------------------------------------------------
(* Scope level: folder keys against directories, override keys against stems *)

DistinctSeqs(S, n) ==
    {q \in SeqsUpTo(S, n) : \A i, j \in 1..Len(q) : i # j => q[i] # q[j]}

Digits == <<"1", "2", "3", "4">>

OneChest == Nbt(Tree(Some(<<Entity("Chest", None, None)>>)))

\* keys as a user may write them: plain, with stray slashes, "./", backslashes
FolderKeys ==
    {k \in SeqsUpTo({"a", "/"}, MaxKeyLen) : k # <<>> /\ k[1] # "/" /\ k[Len(k)] # "/"}
    \cup {<<>>, <<"/">>, <<"a", "/">>, <<"/", "a">>, <<".", "/", "a">>, <<".">>,
          <<"a", "\\", "a">>}

ScopeDirs ==
    {<<>>, <<"a">>, <<"a", "a">>, <<"a", "/", "a">>, <<"a", "a", "/", "a">>,
     <<"a", "/", "a", "a">>, <<"a", "a", "a">>}

FolderList(keys) ==
    [i \in 1..Len(keys) |->
        [key |-> keys[i],
         rule |-> FolderRule(None, Some(OneTile("Chest", <<Digits[i]>>)), None)]]

InitFolders ==
    /\ dirExists = TRUE
    /\ cfgStatus = "file"
    /\ \E keys \in DistinctSeqs(FolderKeys, MaxKeys) :
        cfgValue = Cfg(None, Some(FolderList(keys)), None)
    /\ onlyUnassigned = TRUE
    /\ \E d \in ScopeDirs :
        walked = <<IF d = <<>> THEN <<"x", EXT>> ELSE d \o <<"/", "x", EXT>>>>
    /\ disk = <<OneChest>>
    /\ Started

OverrideKeys ==
    SeqsUpTo({"a", "_"}, MaxOverrideKeyLen) \cup {<<"A">>, <<"a", "_", "a">>}

ScopeNames ==
    {<<"a", EXT>>, <<"a", "a", EXT>>, <<"a", "_", "a", EXT>>, <<"a", "a", "_", "a", EXT>>,
     <<"_", "a", EXT>>, <<"a", "_", "_", "a", EXT>>, <<"A", "_", "a", ".MCSTRUCTURE">>,
     <<"a", "_", EXT>>}

OverrideList(keys) ==
    [i \in 1..Len(keys) |-> [key |-> keys[i], value |-> OneTile("Chest", <<Digits[i]>>)]]

InitOverrides ==
    /\ dirExists = TRUE
    /\ cfgStatus = "file"
    /\ \E keys \in DistinctSeqs(OverrideKeys, MaxKeys) :
        cfgValue = Cfg(None,
                       Some(<<[key |-> <<"d">>,
                               rule |-> FolderRule(None, None, Some(OverrideList(keys)))]>>),
                       None)
    /\ onlyUnassigned = TRUE
    /\ \E name \in ScopeNames : walked = <<<<"d", "/">> \o name>>
    /\ disk = <<OneChest>>
    /\ Started

InitScope == InitFolders \/ InitOverrides

SpecScope == InitScope /\ [][Next]_vars

\* the segments of a path
RECURSIVE Split(_)
Split(s) ==
    IF \A i \in 1..Len(s) : s[i] # "/" THEN <<s>>
    ELSE LET i == CHOOSE j \in 1..Len(s) : s[j] = "/" /\ \A m \in 1..(j - 1) : s[m] # "/"
         IN  <<SubSeq(s, 1, i - 1)>> \o Split(SubSeq(s, i + 1, Len(s)))

SegPrefix(a, b) == Len(a) <= Len(b) /\ SubSeq(b, 1, Len(a)) = a

\* the directory of the current file, "." for a file directly under structuresDir
FileDirSegs ==
    LET segs == Split(walked[CurFile])
    IN  IF Len(segs) = 1 THEN <<<<".">>>> ELSE SubSeq(segs, 1, Len(segs) - 1)

RECURSIVE Join(_)
Join(segs) ==
    IF Len(segs) = 1 THEN segs[1] ELSE segs[1] \o <<"/">> \o Join(Tail(segs))

ConfigFolders == IF cfgValue.folders = None THEN <<>> ELSE Get(cfgValue.folders)

\* a key as written, with "\" for "/", without leading and trailing slashes and
\* without a leading "./"
Normalised(key) ==
    LET s == [i \in 1..Len(key) |-> IF key[i] = "\\" THEN "/" ELSE key[i]]
        lead == IF \E i \in 1..Len(s) : s[i] # "/"
                THEN CHOOSE i \in 1..Len(s) : s[i] # "/" /\ \A m \in 1..(i - 1) : s[m] = "/"
                ELSE Len(s) + 1
        last == IF \E i \in 1..Len(s) : s[i] # "/"
                THEN CHOOSE i \in 1..Len(s) : s[i] # "/" /\ \A m \in (i + 1)..Len(s) : s[m] = "/"
                ELSE 0
        t == SubSeq(s, lead, last)
    IN  IF Len(t) >= 2 /\ t[1] = "." /\ t[2] = "/" THEN SubSeq(t, 3, Len(t)) ELSE t

\* folder key i, normalised, is a full-segment prefix of the file's directory
FolderMatches(i) ==
    /\ Normalised(ConfigFolders[i].key) # <<>>
    /\ SegPrefix(Split(Normalised(ConfigFolders[i].key)), FileDirSegs)

FolderMatchSet == {i \in 1..Len(ConfigFolders) : FolderMatches(i)}

\* C3 amended: keys are compared after normalisation ("\" read as "/", leading
\* and trailing slashes and a leading "./" dropped, empty keys ignored).
\* pickFolderRule returns the rule of the key whose normalised form is the
\* longest full-segment prefix of the file's directory, the first such key in
\* configuration order when several normalise to it, and none when no key
\* matches; a key that is only a character prefix of a segment never matches.
C3_LongestSegmentPrefix ==
    pc = "records" =>
        IF FolderMatchSet = {} THEN folderRule = None
        ELSE \E b \in FolderMatchSet :
                /\ \A i \in FolderMatchSet :
                      \/ Len(Normalised(ConfigFolders[i].key)) < Len(Normalised(ConfigFolders[b].key))
                      \/ (Len(Normalised(ConfigFolders[i].key)) = Len(Normalised(ConfigFolders[b].key))
                          /\ b <= i)
                /\ folderRule = Some(ConfigFolders[b].rule)

C3_Witness ==
    /\ pc = "records"
    /\ Len(ConfigFolders) = 2
    /\ ConfigFolders[1].key = <<"a">>
    /\ ConfigFolders[2].key = <<"a", "/", "a">>
    /\ FileDirSegs = <<<<"a">>, <<"a">>>>
    /\ folderRule = Some(ConfigFolders[2].rule)

\* folder key i, as written, equals the directory or is followed by "/" in it
RawFolderMatches(i) ==
    LET dir == Join(FileDirSegs)
        key == ConfigFolders[i].key
    IN  dir = key \/ (Len(key) < Len(dir) /\ SubSeq(dir, 1, Len(key) + 1) = key \o <<"/">>)

RawFolderMatchSet == {i \in 1..Len(ConfigFolders) : RawFolderMatches(i)}

\* C3 as stated: the rule of the longest key that equals the directory or is
\* followed by "/" in it, and none when no key is.
C3_Original ==
    pc = "records" =>
        IF RawFolderMatchSet = {} THEN folderRule = None
        ELSE \E b \in RawFolderMatchSet :
                /\ \A i \in RawFolderMatchSet :
                      Len(ConfigFolders[i].key) <= Len(ConfigFolders[b].key)
                /\ folderRule = Some(ConfigFolders[b].rule)

\* the lower-cased stem of the current file and the override keys of its folder
FileStem ==
    LET name == Split(walked[CurFile])[Len(Split(walked[CurFile]))]
        stem == IF LowerChar(name[Len(name)]) = EXT THEN SubSeq(name, 1, Len(name) - 1) ELSE name
    IN  [i \in 1..Len(stem) |-> LowerChar(stem[i])]

FolderOverrides ==
    IF folderRule = None \/ Get(folderRule).structure_overrides = None THEN <<>>
    ELSE Get(Get(folderRule).structure_overrides)

LowerKey(i) == [j \in 1..Len(FolderOverrides[i].key) |-> LowerChar(FolderOverrides[i].key[j])]

OverrideMatches(i) ==
    \/ FileStem = LowerKey(i)
    \/ (Len(LowerKey(i)) < Len(FileStem)
        /\ SubSeq(FileStem, 1, Len(LowerKey(i)) + 1) = LowerKey(i) \o <<"_">>)

OverrideMatchSet == {i \in 1..Len(FolderOverrides) : OverrideMatches(i)}

\* C4: pickStructureOverride returns the override of a longest key that, lower
\* cased, equals the lower-cased stem or is followed by "_" in it, and none when
\* no key matches.
C4_LongestStemPrefix ==
    pc = "records" =>
        LET picked == pickStructureOverride(folderRule, getStructureBaseName(walked[CurFile]))
        IN  IF OverrideMatchSet = {} THEN picked = None
            ELSE \E b \in OverrideMatchSet :
                    /\ \A i \in OverrideMatchSet : Len(LowerKey(i)) <= Len(LowerKey(b))
                    /\ picked = Some(FolderOverrides[b].value)

-----------------------------------------------------------------------------
(* Layer level: every combination of the four layers for two tile types *)

\* the tile maps with an optional entry for Chest and for Barrel
TileMaps(chestEntries, barrelEntries) ==
    {[t \in ({"Chest"} \cap c.dom) \cup ({"Barrel"} \cap b.dom) |->
        IF t = "Chest" THEN c.val ELSE b.val] :
        c \in {[dom |-> {}, val |-> None]} \cup {[dom |-> {"Chest"}, val |-> e] : e \in chestEntries},
        b \in {[dom |-> {}, val |-> None]} \cup {[dom |-> {"Barrel"}, val |-> e] : e \in barrelEntries}}

LayerGlobals ==
    TileMaps({Entry(Some(<<"G">>), IntSeed(1))}, {Entry(Some(<<"g">>), NullSeed)})

LayerFolderTiles ==
    TileMaps({Entry(Some(<<"F">>), IntSeed(0)), Entry(None, NullSeed)}, {})

LayerDefaults == TileMaps({<<>>, <<"D">>}, {<<"d">>})

LayerOverrides == TileMaps({<<>>, <<"O">>}, {})

\* the tile map at the configuration root (the older config shape): absent,
\* under tile_entities, or under the alias containers
LayerLegacy ==
    { [tile_entities |-> None, containers |-> None],
      [tile_entities |-> Some([t \in {"Chest", "Barrel"} |->
                                  IF t = "Chest" THEN Entry(Some(<<"L">>), IntSeed(1))
                                  ELSE Entry(Some(<<"l">>), NullSeed)]),
       containers |-> None],
      [tile_entities |-> None,
       containers |-> Some(OneTile("Chest", Entry(Some(<<"L">>), IntSeed(1))))] }

LayerDefaultSeeds ==
    {None, Some(Defaults(IntSeed(0), FALSE)), Some(Defaults(IntSeed(2), FALSE))}

TwoRecords ==
    Nbt(Tree(Some(<<Entity("Chest", None, Some(LongTag(9))), Entity("Barrel", None, None)>>)))

\* an absent map when the layer defines nothing and absent is TRUE
Optional(m, absent) == IF absent /\ DOMAIN m = {} THEN None ELSE Some(m)

InitLayers ==
    /\ dirExists = TRUE
    /\ cfgStatus = "file"
    /\ \E g \in LayerGlobals, ft \in LayerFolderTiles, sd \in LayerDefaults,
          so \in LayerOverrides, alias \in BOOLEAN, legacy \in LayerLegacy,
          ds \in LayerDefaultSeeds :
        cfgValue =
            [global |-> IF alias
                        THEN Some([tile_entities |-> None, containers |-> Some(g)])
                        ELSE Some([tile_entities |-> Some(g), containers |-> None]),
             folders |-> Some(<<[key |-> <<"v">>,
                                 rule |-> FolderRule(Optional(ft, TRUE), Optional(sd, TRUE),
                                                     Some(<<[key |-> <<"a">>, value |-> so]>>))]>>),
             defaults |-> ds,
             tile_entities |-> legacy.tile_entities,
             containers |-> legacy.containers]
    /\ onlyUnassigned = TRUE
    /\ walked \in {<<<<"v", "/", "a", "_", "2", EXT>>>>, <<<<"v", "/", "b", EXT>>>>,
                   <<<<"w", "/", "a", "_", "2", EXT>>>>}
    /\ disk = <<TwoRecords>>
    /\ Started

SpecLayers == InitLayers /\ [][Next]_vars

\* the four layers as the current file sees them; a layer that does not apply
\* to the file is empty
GlobalLayer == getTileMap(cfgValue.global)
FolderLayer == getTileMap(folderRule)
DefaultsLayer ==
    IF folderRule = None \/ Get(folderRule).structure_defaults = None THEN NoTiles
    ELSE Get(Get(folderRule).structure_defaults)
OverrideLayer ==
    LET picked == pickStructureOverride(folderRule, getStructureBaseName(walked[CurFile]))
    IN  IF picked = None THEN NoTiles ELSE Get(picked)

\* the map in which every tile type has the whole entry of the highest layer
\* that defines it; byDefaults and byOverride are the tile types that the two
\* path layers define
Composite(byDefaults, byOverride) ==
    [t \in DOMAIN GlobalLayer \cup DOMAIN FolderLayer \cup byDefaults \cup byOverride |->
        IF t \in byOverride THEN [loot_table |-> Some(OverrideLayer[t]), seed |-> NullSeed]
        ELSE IF t \in byDefaults THEN [loot_table |-> Some(DefaultsLayer[t]), seed |-> NullSeed]
        ELSE IF t \in DOMAIN FolderLayer THEN FolderLayer[t]
        ELSE GlobalLayer[t]]

\* a path layer defines the tile types it has a key for / a non-empty path for
KeysOf(layer) == DOMAIN layer
PathsOf(layer) == {t \in DOMAIN layer : layer[t] # <<>>}

CompositeByPath == Composite(PathsOf(DefaultsLayer), PathsOf(OverrideLayer))
CompositeByKey == Composite(KeysOf(DefaultsLayer), KeysOf(OverrideLayer))

\* the legacy map of the configuration root is used instead
LegacyUsed(composite) ==
    DOMAIN composite = {} /\ DOMAIN getTileMap(Some(cfgValue)) # {}

\* C2 amended: a structure_defaults or structure_overrides entry defines a tile
\* type only when its loot path is not empty (an empty path is skipped and the
\* lower layers stay in force).  With that, every tile type has the whole
\* entry of the highest layer that defines it, in the order global <
\* folder.tile_entities < folder.structure_defaults < folder.structure_overrides
\* (the override pickStructureOverride picks), without field-level merge.
C2_LayerPrecedence ==
    (pc = "records" /\ ~LegacyUsed(CompositeByPath)) => tileConfig = CompositeByPath

C2_Witness ==
    /\ pc = "records"
    /\ "Chest" \in DOMAIN FolderLayer
    /\ FolderLayer["Chest"] = Entry(Some(<<"F">>), IntSeed(0))
    /\ "Chest" \in PathsOf(DefaultsLayer)
    /\ "Chest" \in PathsOf(OverrideLayer)
    /\ tileConfig["Chest"] = [loot_table |-> Some(<<"O">>), seed |-> NullSeed]

\* the entries that carry a loot path: the rules the record loop can apply
Effective(tiles) ==
    [t \in {u \in DOMAIN tiles : tiles[u].loot_table \notin {None, Some(<<>>)}} |-> tiles[t]]

\* C2 as stated: every entry of a layer defines its tile type, so that an entry
\* of a higher layer replaces the lower one whatever its loot path is.
C2_Original ==
    (pc = "records" /\ ~LegacyUsed(CompositeByPath))
        => Effective(tileConfig) = Effective(CompositeByKey)

\* the tile map written directly at the configuration root
LegacyLayer ==
    IF cfgValue.tile_entities # None THEN Get(cfgValue.tile_entities)
    ELSE IF cfgValue.containers # None THEN Get(cfgValue.containers)
    ELSE NoTiles

\* C11: when the map composited from the global, folder, structure_defaults
\* and structure_overrides layers is empty for a file, the effective rule map
\* of the file is the legacy tile map of the configuration root; when it is
\* not empty, the effective rule map has the tile types of the composited map
\* only, each with the composited entry, so that no legacy entry is used.
C11_LegacyFallback ==
    pc = "records" =>
        IF DOMAIN CompositeByPath = {}
        THEN tileConfig = LegacyLayer
        ELSE /\ DOMAIN tileConfig = DOMAIN CompositeByPath
             /\ \A t \in DOMAIN tileConfig : tileConfig[t] = CompositeByPath[t]

C11_Witness ==
    /\ pc = "records"
    /\ DOMAIN CompositeByPath = {}
    /\ folderRule # None
    /\ DOMAIN LegacyLayer = {"Chest", "Barrel"}
    /\ tileConfig = LegacyLayer
    /\ recState = <<"mutated", "mutated">>
    /\ InMemory(1).LootTable = Some(StringTag(<<"L">>))

\* the effective rule of tile type t comes from structure_defaults or from the
\* structure_overrides entry picked for the file
FromPathLayer(t) == t \in PathsOf(DefaultsLayer) \cup PathsOf(OverrideLayer)

\* the tile type has an entry with a per-tile seed in the global or the folder
\* tile map
SeedBelow(t) ==
    \/ t \in DOMAIN GlobalLayer /\ GlobalLayer[t].seed # NullSeed
    \/ t \in DOMAIN FolderLayer /\ FolderLayer[t].seed # NullSeed

\* C14: an effective rule that comes from structure_defaults or
\* structure_overrides carries no per-tile seed, whatever seed the global or
\* folder entry it replaces had, and a record written from such a rule ends
\* with the default seed of the configuration as its LootTableSeed when one is
\* set and without a LootTableSeed leaf otherwise.
C14_PathLayersCarryNoSeed ==
    pc = "records" =>
        /\ \A t \in DOMAIN tileConfig : FromPathLayer(t) => tileConfig[t].seed = NullSeed
        /\ \A k \in Visited :
              (recState[k] = "mutated" /\ FromPathLayer(OnDisk(k).id)) =>
                  InMemory(k).LootTableSeed
                      = (IF ConfigDefaultSeed = NullSeed THEN None
                         ELSE Some(LongTag(ConfigDefaultSeed.v)))

C14_Witness ==
    /\ pc = "records"
    /\ ConfigDefaultSeed = NullSeed
    /\ FromPathLayer("Chest")
    /\ SeedBelow("Chest")
    /\ 1 \in Visited
    /\ recState[1] = "mutated"
    /\ OnDisk(1).LootTableSeed = Some(LongTag(9))
    /\ InMemory(1).LootTableSeed = None

====
